---- MODULE Spec2Model ----
(***************************************************************************)
(* ContractGuard: the upload -> extract -> analyze -> render pipeline of   *)
(* App.tsx (handleFileUpload) and services/contractAnalyzer                *)
(* (extractTextFromFile, analyzeContract).                                 *)
(*                                                                         *)
(* Text is a sequence of one-character strings, so that length, trim, the  *)
(* fence-stripping regular expression and JSON parsing are computed on the *)
(* characters, as the code computes them.                                  *)
(***************************************************************************)
EXTENDS Integers, Sequences, FiniteSets, TLC

(***************************************************************************)
(* JavaScript values.  The tag k sorts before every other field, so two    *)
(* values of different kinds compare unequal on the tag alone.             *)
(***************************************************************************)
Null == [k |-> "null"]

Undefined == [k |-> "undef"]

Bool(b) == [k |-> "bool", v |-> b]

Num(n) == [k |-> "num", v |-> n]

Str(cs) == [k |-> "str", v |-> cs]

Arr(es) == [k |-> "arr", v |-> es]

\* An object is a function from its keys (texts) to values.
Obj(f) == [k |-> "obj", v |-> f]

EmptyObj == Obj(<<>>)

\* obj[key] = val: an existing key is overwritten, a new one is added.
ObjSet(f, key, val) ==
  [x \in (DOMAIN f) \cup {key} |-> IF x = key THEN val ELSE f[x]]

\* obj.key: undefined when the object has no such property.
GetProp(val, key) ==
  IF val.k = "obj" /\ key \in DOMAIN val.v THEN val.v[key] ELSE Undefined

\* JavaScript truthiness, as !x and x || y use it.
Falsy(val) ==
  \/ val.k \in {"null", "undef"}
  \/ val.k = "bool" /\ ~val.v
  \/ val.k = "num" /\ val.v = 0
  \/ val.k = "str" /\ val.v = <<>>

(***************************************************************************)
(* Characters and text.                                                    *)
(***************************************************************************)
\* The character at position i, "" past the end of the text.
At(s, i) == IF i >= 1 /\ i <= Len(s) THEN s[i] ELSE ""

\* Whether text w occurs in s at position i.
StartsWithAt(s, i, w) ==
  /\ i + Len(w) - 1 <= Len(s)
  /\ \A n \in 1..Len(w) : s[i + n - 1] = w[n]

\* What String.prototype.trim removes (of the characters the model uses).
WhiteSpace == {" ", "\n", "\t", "\r"}

Blank(s, from, to) == \A j \in from..to : s[j] \in WhiteSpace

TrimStart(s) ==
  IF Blank(s, 1, Len(s)) THEN <<>>
  ELSE SubSeq(s, CHOOSE i \in 1..Len(s) : s[i] \notin WhiteSpace /\ Blank(s, 1, i - 1), Len(s))

TrimEnd(s) ==
  IF Blank(s, 1, Len(s)) THEN <<>>
  ELSE SubSeq(s, 1, CHOOSE i \in 1..Len(s) : s[i] \notin WhiteSpace /\ Blank(s, i + 1, Len(s)))

Trim(s) == TrimEnd(TrimStart(s))

Digits == <<"0", "1", "2", "3", "4", "5", "6", "7", "8", "9">>

DigitChars == {Digits[n] : n \in 1..10}

DigitValue(c) == (CHOOSE n \in 1..10 : Digits[n] = c) - 1

\* Number to decimal text, as a template literal formats an integer >= 0.
RECURSIVE ToText(_)
ToText(n) ==
  IF n < 10 THEN <<Digits[n + 1]>> ELSE ToText(n \div 10) \o <<Digits[(n % 10) + 1]>>

(***************************************************************************)
(* response.replace(/FENCE json \n? | \n? FENCE/g, ''), FENCE being three  *)
(* backticks.                                                              *)
(***************************************************************************)
\* The backtick character (a string literal cannot hold one).
Backtick == "BACKTICK"

Fence == <<Backtick, Backtick, Backtick>>

FenceJson == Fence \o <<"j", "s", "o", "n">>

\* Length of the regular expression's match at position i, 0 when none.
\* The alternatives are tried in order, and \n? is greedy.
FenceMatchLen(s, i) ==
  IF StartsWithAt(s, i, FenceJson)
  THEN (IF At(s, i + 7) = "\n" THEN 8 ELSE 7)
  ELSE IF At(s, i) = "\n" /\ StartsWithAt(s, i + 1, Fence) THEN 4
  ELSE IF StartsWithAt(s, i, Fence) THEN 3
  ELSE 0

\* The text from position i on without the matches: the leftmost match at
\* or after i is dropped, and the search goes on behind it.
RECURSIVE StripFrom(_, _)
StripFrom(s, i) ==
  LET hits == {h \in i..Len(s) : FenceMatchLen(s, h) > 0}
      h == CHOOSE x \in hits : \A y \in hits : x <= y
  IN IF hits = {} THEN SubSeq(s, i, Len(s))
     ELSE SubSeq(s, i, h - 1) \o StripFrom(s, h + FenceMatchLen(s, h))

\* Only the first match is removed: the regular expression without its g flag.
StripFirstFenceOnly(s) ==
  LET hits == {i \in 1..Len(s) : FenceMatchLen(s, i) > 0}
  IN IF hits = {} THEN s
     ELSE LET i == CHOOSE x \in hits : \A y \in hits : x <= y
          IN SubSeq(s, 1, i - 1) \o SubSeq(s, i + FenceMatchLen(s, i), Len(s))

StripFences(s) == StripFrom(s, 1)

\* cleanResponse
CleanResponse(response) == Trim(StripFences(response))

(***************************************************************************)
(* JSON.parse on a text.  Numbers are integers (no fraction or exponent)   *)
(* and strings carry no \u escapes: the texts of the model have none.      *)
(***************************************************************************)
JsonWhiteSpace == {" ", "\n", "\t", "\r"}

\* A parse step's outcome: the value and the position after it.
Parsed(val, pos) == [ok |-> TRUE, val |-> val, pos |-> pos]

NoParse == [ok |-> FALSE, val |-> Null, pos |-> 0]

RECURSIVE SkipWs(_, _)
SkipWs(s, i) == IF At(s, i) \in JsonWhiteSpace THEN SkipWs(s, i + 1) ELSE i

\* The character an escape sequence \c stands for, "" when it is no escape.
Unescape(c) ==
  CASE c = "\"" -> "\""
    [] c = "\\" -> "\\"
    [] c = "/" -> "/"
    [] c = "n" -> "\n"
    [] c = "t" -> "\t"
    [] c = "r" -> "\r"
    [] OTHER -> ""

\* The rest of a string after its opening quote.
RECURSIVE ParseChars(_, _, _)
ParseChars(s, i, acc) ==
  LET c == At(s, i)
  IN IF c = "" \/ c \in {"\n", "\t", "\r"} THEN NoParse
     ELSE IF c = "\"" THEN Parsed(Str(acc), i + 1)
     ELSE IF c = "\\"
          THEN (IF Unescape(At(s, i + 1)) = "" THEN NoParse
                ELSE ParseChars(s, i + 2, Append(acc, Unescape(At(s, i + 1)))))
     ELSE ParseChars(s, i + 1, Append(acc, c))

RECURSIVE ParseDigits(_, _, _)
ParseDigits(s, i, acc) ==
  IF At(s, i) \in DigitChars
  THEN ParseDigits(s, i + 1, 10 * acc + DigitValue(s[i]))
  ELSE Parsed(Num(acc), i)

\* An integer: 0, or a nonzero digit followed by digits; an optional sign.
ParseNumber(s, i) ==
  LET j == IF At(s, i) = "-" THEN i + 1 ELSE i
      r == IF At(s, j) = "0" THEN Parsed(Num(0), j + 1)
           ELSE IF At(s, j) \in DigitChars THEN ParseDigits(s, j, 0)
           ELSE NoParse
  IN IF r.ok /\ j > i THEN Parsed(Num(0 - r.val.v), r.pos) ELSE r

ParseLiteral(s, i) ==
  IF StartsWithAt(s, i, <<"n", "u", "l", "l">>) THEN Parsed(Null, i + 4)
  ELSE IF StartsWithAt(s, i, <<"t", "r", "u", "e">>) THEN Parsed(Bool(TRUE), i + 4)
  ELSE IF StartsWithAt(s, i, <<"f", "a", "l", "s", "e">>) THEN Parsed(Bool(FALSE), i + 5)
  ELSE NoParse

RECURSIVE ParseValue(_, _)
RECURSIVE ParseElements(_, _, _)
RECURSIVE ParseMembers(_, _, _)

\* The elements of an array from position i, up to its closing bracket.
ParseElements(s, i, acc) ==
  LET r == ParseValue(s, i)
      j == SkipWs(s, r.pos)
  IN IF ~r.ok THEN NoParse
     ELSE IF At(s, j) = "," THEN ParseElements(s, SkipWs(s, j + 1), Append(acc, r.val))
     ELSE IF At(s, j) = "]" THEN Parsed(Arr(Append(acc, r.val)), j + 1)
     ELSE NoParse

\* The members of an object from position i, up to its closing brace.  A
\* repeated key keeps its last value.
ParseMembers(s, i, acc) ==
  LET key == IF At(s, i) = "\"" THEN ParseChars(s, i + 1, <<>>) ELSE NoParse
      c == SkipWs(s, key.pos)
      r == ParseValue(s, SkipWs(s, c + 1))
      j == SkipWs(s, r.pos)
  IN IF ~key.ok \/ At(s, c) # ":" THEN NoParse
     ELSE IF ~r.ok THEN NoParse
     ELSE IF At(s, j) = ","
          THEN ParseMembers(s, SkipWs(s, j + 1), ObjSet(acc, key.val.v, r.val))
     ELSE IF At(s, j) = "}" THEN Parsed(Obj(ObjSet(acc, key.val.v, r.val)), j + 1)
     ELSE NoParse

ParseValue(s, i) ==
  LET c == At(s, i)
  IN IF c = "{"
     THEN (IF At(s, SkipWs(s, i + 1)) = "}" THEN Parsed(EmptyObj, SkipWs(s, i + 1) + 1)
           ELSE ParseMembers(s, SkipWs(s, i + 1), <<>>))
     ELSE IF c = "["
     THEN (IF At(s, SkipWs(s, i + 1)) = "]" THEN Parsed(Arr(<<>>), SkipWs(s, i + 1) + 1)
           ELSE ParseElements(s, SkipWs(s, i + 1), <<>>))
     ELSE IF c = "\"" THEN ParseChars(s, i + 1, <<>>)
     ELSE IF c = "-" \/ c \in DigitChars THEN ParseNumber(s, i)
     ELSE ParseLiteral(s, i)

\* JSON.parse(text): the value, or a SyntaxError.
JsonParse(text) ==
  LET r == ParseValue(text, SkipWs(text, 1))
  IN IF r.ok /\ SkipWs(text, r.pos) = Len(text) + 1
     THEN [ok |-> TRUE, val |-> r.val]
     ELSE [ok |-> FALSE, error |-> "SyntaxError"]

(***************************************************************************)
(* Outcomes of a call: a returned value, or a thrown one (an Error object  *)
(* with its message, or a value that is no Error).                         *)
(***************************************************************************)
Returned(val) == [ok |-> TRUE, val |-> val]

Thrown(isError, message) == [ok |-> FALSE, isError |-> isError, message |-> message]

\* A text of n characters c.
Repeat(c, n) == [i \in 1..n |-> c]

(***************************************************************************)
(* extractTextFromFile                                                     *)
(***************************************************************************)
PdfType == "application/pdf"

DocxType == "application/vnd.openxmlformats-officedocument.wordprocessingml.document"

PlainType == "text/plain"

PdfMessage == "PDF files are not yet supported. Please convert your contract to a DOCX file or copy/paste the text into a new Word document and upload that instead."

DocxMessage == "Error reading DOCX file. Please ensure the file is not corrupted."

ReadMessage == "Error reading text file"

UnsupportedMessage == "Unsupported file type. Please upload a DOCX or TXT file."

\* What the mammoth library, the File and the FileReader can fail with.
ImportFailure == "Failed to fetch dynamically imported module"

ReadFailure == "The requested file could not be read"

ArchiveFailure == "Can't find end of central directory"

\* One run of the extractor: the calls it made, what the call it delegates
\* to ended with (inner), and what extractTextFromFile settles with.
Extraction(calls, inner, outcome) == [calls |-> calls, inner |-> inner, outcome |-> outcome]

\* No call was delegated to.
NoCall == [k |-> "nocall"]

\* Lines 47-50: the dynamic import, file.arrayBuffer() and extractRawText,
\* each of which may throw.  The content of a DOCX file stands for the raw
\* text the library extracts from it.
MammothRuns(file) ==
  {[calls |-> <<"import">>, result |-> Thrown(TRUE, ImportFailure)],
   [calls |-> <<"import", "arrayBuffer">>, result |-> Thrown(TRUE, ReadFailure)],
   [calls |-> <<"import", "arrayBuffer", "extractRawText">>,
    result |-> Thrown(TRUE, ArchiveFailure)],
   [calls |-> <<"import", "arrayBuffer", "extractRawText">>,
    result |-> Returned(file.content)]}

\* The try block without its catch: what was thrown propagates.
DocxPropagated(result) == result

\* Lines 46-53: the catch block replaces whatever was thrown.
DocxCaught(result) == IF result.ok THEN result ELSE Thrown(TRUE, DocxMessage)

\* Lines 56-61: the FileReader loads the text, or its onerror rejects.
ReaderRuns(file) ==
  {Extraction(<<"readAsText">>, Returned(file.content), Returned(file.content)),
   Extraction(<<"readAsText">>, Thrown(TRUE, ReadFailure), Thrown(TRUE, ReadMessage))}

\* Whether the file name ends with the extension.
EndsWith(name, ext) ==
  Len(name) >= Len(ext) /\ SubSeq(name, Len(name) - Len(ext) + 1, Len(name)) = ext

\* A PDF is read as text.
ExtractPdfAsText(file) ==
  IF file.type = DocxType
  THEN {Extraction(m.calls, m.result, DocxCaught(m.result)) : m \in MammothRuns(file)}
  ELSE IF file.type \in {PlainType, PdfType} THEN ReaderRuns(file)
  ELSE {Extraction(<<>>, NoCall, Thrown(TRUE, UnsupportedMessage))}

\* A PDF is handed to the DOCX library, as a DOCX file is.
ExtractPdfAsDocx(file) ==
  IF file.type \in {PdfType, DocxType}
  THEN {Extraction(m.calls, m.result, DocxCaught(m.result)) : m \in MammothRuns(file)}
  ELSE IF file.type = PlainType THEN ReaderRuns(file)
  ELSE {Extraction(<<>>, NoCall, Thrown(TRUE, UnsupportedMessage))}

\* A file without a declared type is dispatched on the extension of its name.
ExtractByExtension(file) ==
  IF file.type = PdfType THEN {Extraction(<<>>, NoCall, Thrown(TRUE, PdfMessage))}
  ELSE IF file.type = DocxType
          \/ (file.type = "" /\ EndsWith(file.name, <<".", "d", "o", "c", "x">>))
  THEN {Extraction(m.calls, m.result, DocxCaught(m.result)) : m \in MammothRuns(file)}
  ELSE IF file.type = PlainType \/ (file.type = "" /\ EndsWith(file.name, <<".", "t", "x", "t">>))
  THEN ReaderRuns(file)
  ELSE {Extraction(<<>>, NoCall, Thrown(TRUE, UnsupportedMessage))}

\* The runs extractTextFromFile(file) can make, by the declared type.
extractTextFromFile(file) ==
  IF file.type = PdfType THEN {Extraction(<<>>, NoCall, Thrown(TRUE, PdfMessage))}
  ELSE IF file.type = DocxType
  THEN {Extraction(m.calls, m.result, DocxCaught(m.result)) : m \in MammothRuns(file)}
  ELSE IF file.type = PlainType THEN ReaderRuns(file)
  ELSE {Extraction(<<>>, NoCall, Thrown(TRUE, UnsupportedMessage))}

(***************************************************************************)
(* analyzeContract                                                         *)
(***************************************************************************)
KeyMissingMessage == "Groq API key not found. Please add VITE_GROQ_API_KEY to your .env file."

NoResponseMessage == "No response from AI analysis"

UnexpectedMessage == "An unexpected error occurred during analysis"

\* The message of the SyntaxError JSON.parse throws, and of the TypeError a
\* property read of undefined or a call of a non-function throws.
SyntaxErrorMessage == "SyntaxError: Unexpected token in JSON"

TypeErrorMessage == "TypeError: Cannot read properties of undefined"

getGroqClient(apiKeySet) ==
  IF ~apiKeySet THEN Thrown(TRUE, KeyMissingMessage) ELSE Returned(Str(<<"Groq">>))

\* The fixed text of the prompt before and after the contract text, each
\* held as one element.
PromptHead == "You are a legal expert analyzing a contract ... Contract Text:"

PromptTail == "Please analyze this contract ... Only return the JSON object, no other text."

Prompt(contractText) == <<PromptHead>> \o contractText \o <<PromptTail>>

\* The catch block replaces whatever was thrown by a new Error.
RethrowReplaced(thrown) == Thrown(TRUE, UnexpectedMessage)

\* The catch block of analyzeContract: an Error is thrown again, anything
\* else is replaced by a new Error.
Rethrow(thrown) ==
  IF thrown.isError THEN thrown ELSE Thrown(TRUE, UnexpectedMessage)

\* The request is sent before the credential is checked.
AnalyzeRequestFirst(contractText, apiKeySet) ==
  LET client == getGroqClient(apiKeySet)
  IN [stages |-> <<"request", "credential">>,
      requests |-> <<Prompt(contractText)>>,
      thrown |-> IF client.ok THEN Returned(Null) ELSE Rethrow(client)]

\* The request is sent again when the first attempt is not answered at once.
AnalyzeCallTwice(contractText, apiKeySet) ==
  LET client == getGroqClient(apiKeySet)
  IN IF ~client.ok
     THEN [stages |-> <<"credential">>, requests |-> <<>>, thrown |-> Rethrow(client)]
     ELSE [stages |-> <<"credential", "request">>,
           requests |-> <<Prompt(contractText), Prompt(contractText)>>,
           thrown |-> Returned(Null)]

\* analyzeContract up to its await: the stages run, the requests sent to the
\* completion API, and the error thrown if any.
AnalyzeCall(contractText, apiKeySet) ==
  LET client == getGroqClient(apiKeySet)
  IN IF ~client.ok
     THEN [stages |-> <<"credential">>, requests |-> <<>>, thrown |-> Rethrow(client)]
     ELSE [stages |-> <<"credential", "request">>,
           requests |-> <<Prompt(contractText)>>,
           thrown |-> Returned(Null)]

KeyChoices == <<"c", "h", "o", "i", "c", "e", "s">>

KeyMessage == <<"m", "e", "s", "s", "a", "g", "e">>

KeyContent == <<"c", "o", "n", "t", "e", "n", "t">>

KeyRisks == <<"r", "i", "s", "k", "s">>

KeyId == <<"i", "d">>

KeyOverallScore == <<"o", "v", "e", "r", "a", "l", "l", "S", "c", "o", "r", "e">>

KeyTotalClauses == <<"t", "o", "t", "a", "l", "C", "l", "a", "u", "s", "e", "s">>

KeyRevisedSections ==
  <<"r", "e", "v", "i", "s", "e", "d", "S", "e", "c", "t", "i", "o", "n", "s">>

Nullish(val) == val.k \in {"null", "undef"}

\* completion.choices[0]?.message?.content (choices an array, or missing).
CompletionContent(completion) ==
  LET choices == GetProp(completion, KeyChoices)
      first == IF choices.k = "arr" /\ Len(choices.v) > 0 THEN choices.v[1] ELSE Undefined
      message == IF Nullish(first) THEN Undefined ELSE GetProp(first, KeyMessage)
  IN IF Nullish(choices) THEN Thrown(TRUE, TypeErrorMessage)
     ELSE Returned(IF Nullish(message) THEN Undefined ELSE GetProp(message, KeyContent))

\* The own properties {...risk} copies: those of an object, the indexed
\* elements of an array or characters of a string, none of any other value.
Spread(risk) ==
  IF risk.k = "obj" THEN risk.v
  ELSE IF risk.k = "arr"
  THEN [key \in {ToText(n - 1) : n \in 1..Len(risk.v)} |->
          risk.v[CHOOSE n \in 1..Len(risk.v) : ToText(n - 1) = key]]
  ELSE IF risk.k = "str"
  THEN [key \in {ToText(n - 1) : n \in 1..Len(risk.v)} |->
          Str(<<risk.v[CHOOSE n \in 1..Len(risk.v) : ToText(n - 1) = key]>>)]
  ELSE <<>>

\* The id template: risk- followed by index + 1.
RiskId(index) == Str(<<"r", "i", "s", "k", "-">> \o ToText(index + 1))

\* { id: ..., ...risk }: the entry's own id, when it has one, wins.
WithOwnId(risk, index) ==
  LET own == Spread(risk)
  IN Obj(IF KeyId \in DOMAIN own THEN own ELSE ObjSet(own, KeyId, RiskId(index)))

\* { ...risk, id: ... }
WithId(risk, index) == Obj(ObjSet(Spread(risk), KeyId, RiskId(index)))

\* revisedSections: analysisData.revisedSections, without the || [].
NormalizeWithoutDefault(analysisData, contractText) ==
  LET risks == GetProp(analysisData, KeyRisks)
  IN IF Nullish(analysisData) \/ risks.k # "arr" THEN Thrown(TRUE, TypeErrorMessage)
     ELSE Returned([risks |-> [n \in 1..Len(risks.v) |-> WithId(risks.v[n], n - 1)],
                    overallScore |-> GetProp(analysisData, KeyOverallScore),
                    totalClauses |-> GetProp(analysisData, KeyTotalClauses),
                    originalText |-> contractText,
                    revisedSections |-> GetProp(analysisData, KeyRevisedSections)])

\* Lines 150-162: the result built from the parsed payload; risks.map throws
\* a TypeError unless risks is an array.
Normalize(analysisData, contractText) ==
  LET risks == GetProp(analysisData, KeyRisks)
      revised == GetProp(analysisData, KeyRevisedSections)
  IN IF Nullish(analysisData) \/ risks.k # "arr" THEN Thrown(TRUE, TypeErrorMessage)
     ELSE Returned([risks |-> [n \in 1..Len(risks.v) |-> WithId(risks.v[n], n - 1)],
                    overallScore |-> GetProp(analysisData, KeyOverallScore),
                    totalClauses |-> GetProp(analysisData, KeyTotalClauses),
                    originalText |-> contractText,
                    revisedSections |-> IF Falsy(revised) THEN Arr(<<>>) ELSE revised])

\* Lines 141-162 without the test of lines 142-144.
AnalyzeSettledUnchecked(settled, contractText) ==
  LET content == CompletionContent(settled.val)
      parsed == JsonParse(CleanResponse(content.val.v))
      result == Normalize(parsed.val, contractText)
  IN IF ~settled.ok THEN [stages |-> <<>>, failedAt |-> "request", outcome |-> Rethrow(settled)]
     ELSE IF ~content.ok
     THEN [stages |-> <<"response">>, failedAt |-> "response", outcome |-> Rethrow(content)]
     ELSE IF content.val.k # "str"
     THEN [stages |-> <<"response">>, failedAt |-> "response",
           outcome |-> Thrown(TRUE, TypeErrorMessage)]
     ELSE IF ~parsed.ok
     THEN [stages |-> <<"response", "parse">>, failedAt |-> "parse",
           outcome |-> Thrown(TRUE, SyntaxErrorMessage)]
     ELSE [stages |-> <<"response", "parse", "normalize">>,
           failedAt |-> IF result.ok THEN "" ELSE "normalize",
           outcome |-> result]

\* A settled completion request: resolved with a completion or rejected.
\* analyzeContract after its await: the stages run and the outcome.
AnalyzeSettled(settled, contractText) ==
  LET content == CompletionContent(settled.val)
      parsed == JsonParse(CleanResponse(content.val.v))
      result == Normalize(parsed.val, contractText)
  IN IF ~settled.ok THEN [stages |-> <<>>, failedAt |-> "request", outcome |-> Rethrow(settled)]
     ELSE IF ~content.ok
     THEN [stages |-> <<"response">>, failedAt |-> "response", outcome |-> Rethrow(content)]
     ELSE IF Falsy(content.val)
     THEN [stages |-> <<"response">>, failedAt |-> "response",
           outcome |-> Thrown(TRUE, NoResponseMessage)]
     ELSE IF content.val.k # "str"
     THEN [stages |-> <<"response">>, failedAt |-> "response",
           outcome |-> Thrown(TRUE, TypeErrorMessage)]
     ELSE IF ~parsed.ok
     THEN [stages |-> <<"response", "parse">>, failedAt |-> "parse",
           outcome |-> Thrown(TRUE, SyntaxErrorMessage)]
     ELSE IF ~result.ok
     THEN [stages |-> <<"response", "parse", "normalize">>, failedAt |-> "normalize",
           outcome |-> result]
     ELSE [stages |-> <<"response", "parse", "normalize">>, failedAt |-> "",
           outcome |-> result]

(***************************************************************************)
(* handleFileUpload                                                        *)
(***************************************************************************)
MinTextLength == 100

InsufficientMessage == "Unable to extract sufficient text from the file. Please ensure the file contains readable contract text."

GenericMessage == "An error occurred during analysis"

\* A message held in analysisError.
Msg(m) == [k |-> "msg", v |-> m]

\* The length test passes on any non-empty text.
AnalyzableIfNonEmpty(contractText) == contractText # <<>>

\* The negation of line 43's condition.
Analyzable(contractText) ==
  ~(contractText = <<>> \/ Len(Trim(contractText)) < MinTextLength)

\* Lines 40-48, from the settled extraction to the await of analyzeContract:
\* the stages run, the requests sent, and the error thrown if any.
UploadAfterExtract(extracted, apiKeySet) ==
  LET call == AnalyzeCall(extracted.val, apiKeySet)
  IN IF ~extracted.ok
     THEN [stages |-> <<>>, failedAt |-> "extract", requests |-> <<>>, outcome |-> extracted]
     ELSE IF ~Analyzable(extracted.val)
     THEN [stages |-> <<"length">>, failedAt |-> "length", requests |-> <<>>,
           outcome |-> Thrown(TRUE, InsufficientMessage)]
     ELSE IF ~call.thrown.ok
     THEN [stages |-> <<"length">> \o call.stages, failedAt |-> "credential",
           requests |-> call.requests, outcome |-> call.thrown]
     ELSE [stages |-> <<"length">> \o call.stages, failedAt |-> "",
           requests |-> call.requests, outcome |-> Returned(Null)]

\* error instanceof Error ? error.message : 'An error occurred during analysis'
CatchMessage(thrown) == IF thrown.isError THEN thrown.message ELSE GenericMessage

\* The catch block leaves analysisResult as it was.
SettleKeepingResult(outcome, curError, curResult) ==
  [analysisError |-> IF outcome.ok THEN curError ELSE Msg(CatchMessage(outcome)),
   analysisResult |-> IF outcome.ok THEN outcome.val ELSE curResult,
   isAnalyzing |-> FALSE,
   escaped |-> FALSE]

\* setIsAnalyzing(false) at the end of the try block instead of in finally.
SettleWithoutFinally(outcome, curError, curResult) ==
  [analysisError |-> IF outcome.ok THEN curError ELSE Msg(CatchMessage(outcome)),
   analysisResult |-> IF outcome.ok THEN outcome.val ELSE Null,
   isAnalyzing |-> ~outcome.ok,
   escaped |-> FALSE]

\* The catch block handles only what analyzeContract documents: a
\* SyntaxError passes through it.
SettleDocumentedOnly(outcome, curError, curResult) ==
  LET caught == outcome.ok \/ outcome.message # SyntaxErrorMessage
  IN [analysisError |-> IF caught /\ ~outcome.ok THEN Msg(CatchMessage(outcome)) ELSE curError,
      analysisResult |-> IF outcome.ok THEN outcome.val
                         ELSE IF caught THEN Null ELSE curResult,
      isAnalyzing |-> FALSE,
      escaped |-> ~caught]

\* Lines 49-56: what handleFileUpload writes when its run ends with outcome,
\* and whether the error escapes it.
Settle(outcome, curError, curResult) ==
  [analysisError |-> IF outcome.ok THEN curError ELSE Msg(CatchMessage(outcome)),
   analysisResult |-> IF outcome.ok THEN outcome.val ELSE Null,
   isAnalyzing |-> FALSE,
   escaped |-> FALSE]

(***************************************************************************)
(* JSON text as the model emits it, and the files a user can choose.       *)
(***************************************************************************)
Quote(cs) == <<"\"">> \o cs \o <<"\"">>

RECURSIVE Join(_)
Join(texts) ==
  IF texts = <<>> THEN <<>>
  ELSE IF Len(texts) = 1 THEN texts[1]
  ELSE texts[1] \o <<",">> \o Join(Tail(texts))

Member(key, valueText) == Quote(key) \o <<":">> \o valueText

ObjectText(members) == <<"{">> \o Join(members) \o <<"}">>

ArrayText(elements) == <<"[">> \o Join(elements) \o <<"]">>

KeyType == <<"t", "y", "p", "e">>

KeyCategory == <<"c", "a", "t", "e", "g", "o", "r", "y">>

KeySuggestion == <<"s", "u", "g", "g", "e", "s", "t", "i", "o", "n">>

PaymentTerms == <<"P", "a", "y", "m", "e", "n", "t", " ", "T", "e", "r", "m", "s">>

\* The payload the prompt asks for, around the texts of its risk entries.
PayloadText(riskTexts) ==
  ObjectText(<<Member(KeyRisks, ArrayText(riskTexts)),
               Member(KeyOverallScore, <<"7", "0">>),
               Member(KeyTotalClauses, <<"3">>),
               Member(KeyRevisedSections, ArrayText(<<>>))>>)

KeySection == <<"s", "e", "c", "t", "i", "o", "n">>

\* A revisedSections entry, named by its section.
SectionText(name) == ObjectText(<<Member(KeySection, Quote(name))>>)

MediumRisk ==
  ObjectText(<<Member(KeyType, Quote(<<"m", "e", "d", "i", "u", "m">>)),
               Member(KeyCategory, Quote(PaymentTerms))>>)

\* How a response may fence its payload: no fence, or an opening fence with
\* or without the json tag and a line break, and a closing fence.
FenceStyles ==
  {[open |-> <<>>, close |-> <<>>]} \cup
  [open : {FenceJson \o <<"\n">>, FenceJson, Fence \o <<"\n">>, Fence},
   close : {<<"\n">> \o Fence, Fence}]

Wrap(style, json) == style.open \o json \o style.close

\* The chat completion object whose first choice carries content.
CompletionOf(content) ==
  Obj(KeyChoices :> Arr(<<Obj(KeyMessage :> Obj(KeyContent :> content))>>))

\* What a completion request can settle with: a fenced well-formed payload,
\* a truncated one, a payload without risks, content that is null, empty or
\* absent, a choice without message, no choices, and a rejection with an
\* Error or with a value that is no Error.
Completions ==
  {Returned(CompletionOf(Str(FenceJson \o <<"\n">> \o PayloadText(<<MediumRisk>>)
                               \o <<"\n">> \o Fence))),
   Returned(CompletionOf(Str(SubSeq(PayloadText(<<MediumRisk>>), 1, 20)))),
   Returned(CompletionOf(Str(ObjectText(<<Member(KeyOverallScore, <<"7", "0">>)>>)))),
   Returned(CompletionOf(Null)),
   Returned(CompletionOf(Str(<<>>))),
   Returned(Obj(KeyChoices :> Arr(<<Obj(KeyMessage :> EmptyObj)>>))),
   Returned(Obj(KeyChoices :> Arr(<<EmptyObj>>))),
   Returned(Obj(KeyChoices :> Arr(<<>>))),
   Thrown(TRUE, "429 Rate limit reached"),
   Thrown(FALSE, "Failed to fetch")}

File(name, type, content) == [name |-> name, type |-> type, content |-> content]

\* Files around the length threshold and of every dispatched type.
Files ==
  {File(<<"a", ".", "t", "x", "t">>, PlainType, Repeat("a", MinTextLength + 1)),
   File(<<"b", ".", "t", "x", "t">>, PlainType, Repeat("b", MinTextLength - 1)),
   File(<<"c", ".", "t", "x", "t">>, PlainType,
        <<" ">> \o Repeat("c", MinTextLength - 1) \o <<"\n">>),
   File(<<"d", ".", "d", "o", "c", "x">>, DocxType, Repeat("d", MinTextLength)),
   File(<<"e", ".", "p", "d", "f">>, PdfType, Repeat("e", MinTextLength + 1)),
   File(<<"f", ".", "p", "n", "g">>, "image/png", Repeat("f", MinTextLength + 1)),
   File(<<"g", ".", "t", "x", "t">>, PlainType, <<>>),
   File(<<"h", ".", "t", "x", "t">>, "", Repeat("h", MinTextLength + 1)),
   File(<<"i", ".", "d", "o", "c", "x">>, "", Repeat("i", MinTextLength + 1))}

\* analyzeContract after its await, on the completions and texts of the
\* model: AnalyzeSettled, evaluated once for each.
ResumeTable ==
  [settled \in Completions, text \in {f.content : f \in Files} |->
     AnalyzeSettled(settled, text)]

AnalyzeResume(settled, contractText) == ResumeTable[settled, contractText]

\* The signed-in user the authentication provider reports.
AuthUser == [id |-> "u1", email |-> "u1@example.com"]

(***************************************************************************)
(* State.                                                                  *)
(***************************************************************************)
\* Number of handleFileUpload runs a behaviour starts.
MaxUploads == 2

VARIABLES
  currentView,          \* App state (useState, App.tsx 14-24)
  uploadedFile,
  uploadedFileName,
  analysisResult,
  isAnalyzing,
  analysisError,
  originalContractText,
  user,                 \* useAuth
  authLoading,
  currentUserPending,   \* getCurrentUser() has not settled
  signOutPending,       \* handleSignOut awaits signOut()
  apiKeySet,            \* import.meta.env.VITE_GROQ_API_KEY is set
  runs,                 \* the calls of handleFileUpload, in order of start
  requests,             \* the completion requests sent, in order
  payload,              \* parser check: a response payload,
  fence,                \*   how it is fenced,
  parsedPlain,          \*   clean-and-parse of the payload,
  parsedFenced,         \*   clean-and-parse of the fenced payload,
  normalized,           \*   analyzeContract's outcome on the fenced payload
  now,                  \* export: the date new Date() gives,
  exported,             \*   what the export handler called last did
  effectUser,           \* useSubscription: the user its effect last ran with,
  subscription,
  orders,
  loading,
  fetches               \*   the Promise.all fetches begun, in order of start

appVars ==
  <<currentView, uploadedFile, uploadedFileName, analysisResult, isAnalyzing,
    analysisError, originalContractText>>

authVars == <<user, authLoading, currentUserPending, signOutPending>>

runVars == <<runs, requests>>

parseVars == <<payload, fence, parsedPlain, parsedFenced, normalized>>

exportVars == <<now, exported>>

subVars == <<effectUser, subscription, orders, loading, fetches>>

vars == <<appVars, authVars, apiKeySet, runVars, parseVars, exportVars, subVars>>

NotRun == [k |-> "notrun"]

RunIds == 1..Len(runs)

InFlight(r) == runs[r].pc # "done"

\* The useState initial values, after the mount effects: the URL's view
\* parameter may select the success page, and getCurrentUser is pending.
InitApp ==
  /\ currentView \in {"landing", "success"}
  /\ uploadedFile = Null
  /\ uploadedFileName = <<>>
  /\ analysisResult = Null
  /\ isAnalyzing = FALSE
  /\ analysisError = Null
  /\ originalContractText = <<>>
  /\ user = Null
  /\ authLoading = TRUE
  /\ currentUserPending = TRUE
  /\ signOutPending = FALSE
  /\ runs = <<>>
  /\ requests = <<>>

InitNoParse ==
  /\ payload = <<>>
  /\ fence = [open |-> <<>>, close |-> <<>>]
  /\ parsedPlain = NotRun
  /\ parsedFenced = NotRun
  /\ normalized = NotRun

\* No export handler has been called.
InitNoExport ==
  /\ now = [year |-> 2025, month |-> 1, day |-> 1, hour |-> 0]
  /\ exported = NotRun

\* useSubscription as mounted: its effect has not run yet.
InitNoSub ==
  /\ effectUser = NotRun
  /\ subscription = Null
  /\ orders = <<>>
  /\ loading = FALSE
  /\ fetches = <<>>

Init ==
  /\ InitApp
  /\ apiKeySet \in BOOLEAN
  /\ InitNoParse
  /\ InitNoExport
  /\ InitNoSub

(***************************************************************************)
(* useAuth and handleSignOut.                                              *)
(***************************************************************************)
\* getCurrentUser() settles: with a user, with none, or with an error.
GetCurrentUserSettled ==
  /\ currentUserPending
  /\ currentUserPending' = FALSE
  /\ \E currentUser \in {AuthUser, Null} : user' = IF currentUser # Null THEN currentUser ELSE user
  /\ authLoading' = FALSE
  /\ UNCHANGED <<appVars, signOutPending, apiKeySet, runVars, parseVars, exportVars, subVars>>

\* The onAuthStateChange callback.
AuthStateChange(u) ==
  /\ user' = u
  /\ authLoading' = FALSE
  /\ UNCHANGED <<appVars, currentUserPending, signOutPending, apiKeySet, runVars, parseVars, exportVars, subVars>>

\* The page is rendered (not the loading spinner) and shows view.
Shows(view) == ~authLoading /\ currentView = view

handleSignOut ==
  /\ Shows("landing")
  /\ user # Null
  /\ ~signOutPending
  /\ signOutPending' = TRUE
  /\ UNCHANGED <<appVars, user, authLoading, currentUserPending, apiKeySet, runVars, parseVars, exportVars, subVars>>

\* signOut() settles: setCurrentView('landing'), or the error is logged.
SignOutSettled ==
  /\ signOutPending
  /\ signOutPending' = FALSE
  /\ \E ok \in BOOLEAN : currentView' = IF ok THEN "landing" ELSE currentView
  /\ UNCHANGED <<uploadedFile, uploadedFileName, analysisResult, isAnalyzing, analysisError,
                 originalContractText, user, authLoading, currentUserPending, apiKeySet,
                 runVars, parseVars, exportVars, subVars>>

(***************************************************************************)
(* Navigation.                                                             *)
(***************************************************************************)
SetCurrentView(view) ==
  /\ currentView' = view
  /\ UNCHANGED <<uploadedFile, uploadedFileName, analysisResult, isAnalyzing, analysisError,
                 originalContractText, authVars, apiKeySet, runVars, parseVars, exportVars, subVars>>

\* The logo button of the upload, analysis, compare and pricing pages.
ShowLanding ==
  /\ \E view \in {"upload", "analysis", "compare", "pricing"} : Shows(view)
  /\ SetCurrentView("landing")

ShowPricing == Shows("landing") /\ SetCurrentView("pricing")

\* Analyze Contract, shown on the landing page to a signed-in user.
AnalyzeContractButton == Shows("landing") /\ user # Null /\ SetCurrentView("upload")

\* Without a user it opens the sign-in modal and leaves the view.
handleFreeAccess ==
  /\ Shows("landing") \/ Shows("pricing")
  /\ IF user = Null THEN UNCHANGED vars ELSE SetCurrentView("upload")

\* onContinue of the success page.
SuccessContinue == Shows("success") /\ SetCurrentView("upload")

\* Side-by-Side View, disabled while isAnalyzing.
SideBySide == Shows("analysis") /\ ~isAnalyzing /\ SetCurrentView("compare")

\* Try Another File, rendered when not analyzing and analysisError is truthy.
TryAnotherFile ==
  /\ Shows("analysis")
  /\ ~isAnalyzing
  /\ analysisError # Null /\ analysisError.v # ""
  /\ SetCurrentView("upload")

BackToAnalysis == Shows("compare") /\ SetCurrentView("analysis")

(***************************************************************************)
(* handleFileUpload: its start, and its continuations after the awaited    *)
(* extraction and the awaited analyzeContract.                             *)
(***************************************************************************)
\* The file input of the upload page changes: lines 30-40, to the first await.
handleFileUpload(file) ==
  /\ Shows("upload")
  /\ Len(runs) < MaxUploads
  /\ uploadedFile' = file
  /\ uploadedFileName' = file.name
  /\ currentView' = "analysis"
  /\ isAnalyzing' = TRUE
  /\ analysisError' = Null
  /\ runs' = Append([r \in RunIds |-> [runs[r] EXCEPT !.concurrent = @ \/ InFlight(r)]],
                    [file |-> file, pc |-> "extracting", calls |-> <<>>, inner |-> NoCall,
                     contractText |-> <<>>,
                     stages |-> <<"extract">>, failedAt |-> "", outcome |-> Returned(Null),
                     settled |-> Returned(Null), escaped |-> FALSE,
                     concurrent |-> \E r \in RunIds : InFlight(r)])
  /\ UNCHANGED <<analysisResult, originalContractText, authVars, apiKeySet, requests, parseVars, exportVars, subVars>>

\* What a finished run writes to the App state.
Publish(written) ==
  /\ analysisError' = written.analysisError
  /\ analysisResult' = written.analysisResult
  /\ isAnalyzing' = written.isAnalyzing

\* extractTextFromFile settles and run r continues to the await of
\* analyzeContract, or ends in the catch block.
ExtractSettled(r) ==
  /\ runs[r].pc = "extracting"
  /\ \E extraction \in extractTextFromFile(runs[r].file) :
       LET extracted == extraction.outcome
           step == UploadAfterExtract(extracted, apiKeySet)
           written == Settle(step.outcome, analysisError, analysisResult)
       IN /\ originalContractText' = IF extracted.ok THEN extracted.val ELSE originalContractText
          /\ requests' = requests \o [n \in 1..Len(step.requests) |->
                                        [run |-> r, prompt |-> step.requests[n]]]
          /\ IF step.outcome.ok
             THEN /\ runs' = [runs EXCEPT ![r] = [@ EXCEPT !.pc = "requesting",
                                                           !.calls = extraction.calls,
                                                           !.inner = extraction.inner,
                                                           !.contractText = extracted.val,
                                                           !.stages = @ \o step.stages]]
                  /\ UNCHANGED <<analysisError, analysisResult, isAnalyzing>>
             ELSE /\ runs' = [runs EXCEPT ![r] = [@ EXCEPT !.pc = "done",
                                                           !.calls = extraction.calls,
                                                           !.inner = extraction.inner,
                                                           !.contractText =
                                                             IF extracted.ok THEN extracted.val ELSE @,
                                                           !.stages = @ \o step.stages,
                                                           !.failedAt = step.failedAt,
                                                           !.outcome = step.outcome,
                                                           !.escaped = written.escaped]]
                  /\ Publish(written)
  /\ UNCHANGED <<currentView, uploadedFile, uploadedFileName, authVars, apiKeySet, parseVars, exportVars, subVars>>

\* The completion request of run r settles: analyzeContract resumes, and
\* handleFileUpload publishes the result or ends in the catch block.
CompletionSettled(r) ==
  /\ runs[r].pc = "requesting"
  /\ \E settled \in Completions :
       LET step == AnalyzeResume(settled, runs[r].contractText)
           written == Settle(step.outcome, analysisError, analysisResult)
       IN /\ runs' = [runs EXCEPT ![r] = [@ EXCEPT !.pc = "done",
                                                   !.settled = settled,
                                                   !.stages = @ \o step.stages \o
                                                     (IF step.outcome.ok THEN <<"publish">> ELSE <<>>),
                                                   !.failedAt = step.failedAt,
                                                   !.outcome = step.outcome,
                                                   !.escaped = written.escaped]]
          /\ Publish(written)
  /\ UNCHANGED <<currentView, uploadedFile, uploadedFileName, originalContractText, authVars,
                 apiKeySet, requests, parseVars, exportVars, subVars>>

(***************************************************************************)
(* The response parser on its own: lines 141-162 applied to a payload,     *)
(* bare and fenced.                                                        *)
(***************************************************************************)
\* Number of pieces a string of a payload is made of, and of risk entries.
MaxPieces == 2

MaxRisks == 2

\* What the strings are made of: a backtick, a fence, the json tag, a
\* letter, the escape sequence \n and a raw line break (not valid in a JSON
\* string).
Pieces ==
  {<<Backtick>>, Fence, <<"j", "s", "o", "n">>, <<"a">>, <<"\\", "n">>, <<"\n">>}

RECURSIVE Contents(_)
Contents(n) ==
  IF n = 0 THEN {<<>>}
  ELSE Contents(n - 1) \cup {c \o piece : c \in Contents(n - 1), piece \in Pieces}

\* JSON texts around a string: bare, in an array, as an object's key and
\* value, and with white space around.
JsonTexts ==
  UNION {{Quote(c),
          ArrayText(<<Quote(c), <<"1">>>>),
          ObjectText(<<Member(c, Quote(c))>>),
          <<"\n", " ">> \o Quote(c) \o <<"\n">>} : c \in Contents(MaxPieces)}

\* Risk entries: in and out of the severity taxonomy, with an id of their
\* own, with fences and tags inside a string, and entries that are no object.
RiskTexts ==
  {ObjectText(<<Member(KeyType, Quote(<<"h", "i", "g", "h">>))>>),
   MediumRisk,
   ObjectText(<<Member(KeyType, Quote(<<"u", "r", "g", "e", "n", "t">>)),
                Member(KeyId, Quote(<<"x">>))>>),
   ObjectText(<<Member(KeyId, <<"7">>)>>),
   ObjectText(<<Member(KeySuggestion, Quote(<<"a">> \o Fence \o <<"b">>))>>),
   ObjectText(<<Member(KeySuggestion, Quote(FenceJson))>>),
   Quote(<<"a", "b">>),
   ArrayText(<<<<"1">>>>),
   <<"n", "u", "l", "l">>}

RECURSIVE RiskLists(_)
RiskLists(n) ==
  IF n = 0 THEN {<<>>}
  ELSE RiskLists(n - 1) \cup {Append(rs, r) : rs \in RiskLists(n - 1), r \in RiskTexts}

\* Payloads of the expected shape, payloads with a field missing or of
\* another type, and texts that are no JSON: truncated, or with a comma
\* before the closing brace.
PayloadTexts ==
  {PayloadText(rs) : rs \in RiskLists(MaxRisks)} \cup
  {ObjectText(<<Member(KeyRisks, ArrayText(<<MediumRisk>>))>>),
   ObjectText(<<Member(KeyOverallScore, <<"7", "0">>)>>),
   ObjectText(<<Member(KeyRisks, Quote(<<"a">>))>>),
   ObjectText(<<Member(KeyRisks, ArrayText(<<MediumRisk>>)),
                Member(KeyRevisedSections, <<"n", "u", "l", "l">>)>>),
   ObjectText(<<Member(KeyRisks, ArrayText(<<>>)),
                Member(KeyRevisedSections, ArrayText(<<SectionText(<<"1">>), SectionText(<<"2">>)>>))>>),
   ObjectText(<<Member(KeyRisks, ArrayText(<<>>)),
                Member(KeyRevisedSections, Quote(<<"a">>))>>),
   <<"n", "u", "l", "l">>,
   SubSeq(PayloadText(<<MediumRisk>>), 1, Len(PayloadText(<<MediumRisk>>)) - 1),
   ObjectText(<<Member(KeyRisks, ArrayText(<<MediumRisk>>)) \o <<",">>>>),
   <<>>}

\* The text analyzeContract was called with in the parser check.
SampleText == <<"t", "e", "x", "t">>

InitParse ==
  /\ InitApp
  /\ currentView = "landing"
  /\ apiKeySet = TRUE
  /\ payload \in JsonTexts \cup PayloadTexts
  /\ fence \in FenceStyles
  /\ InitNoExport
  /\ InitNoSub
  /\ parsedPlain = NotRun
  /\ parsedFenced = NotRun
  /\ normalized = NotRun

\* Lines 147-148 on the payload as it is.
ParsePlain ==
  /\ parsedPlain = NotRun
  /\ parsedPlain' = JsonParse(CleanResponse(payload))
  /\ UNCHANGED <<appVars, authVars, apiKeySet, runVars, exportVars, subVars, payload, fence, parsedFenced, normalized>>

\* Lines 147-148 on the fenced payload.
ParseFenced ==
  /\ parsedPlain # NotRun
  /\ parsedFenced = NotRun
  /\ parsedFenced' = JsonParse(CleanResponse(Wrap(fence, payload)))
  /\ UNCHANGED <<appVars, authVars, apiKeySet, runVars, exportVars, subVars, payload, fence, parsedPlain, normalized>>

\* Lines 141-162 on a completion whose content is the fenced payload.
AnalyzeFenced ==
  /\ parsedFenced # NotRun
  /\ normalized = NotRun
  /\ normalized' = AnalyzeSettled(Returned(CompletionOf(Str(Wrap(fence, payload)))), SampleText)
  /\ UNCHANGED <<appVars, authVars, apiKeySet, runVars, exportVars, subVars, payload, fence, parsedPlain, parsedFenced>>

NextParse == ParsePlain \/ ParseFenced \/ AnalyzeFenced

SpecParse == InitParse /\ [][NextParse]_vars

(***************************************************************************)
(* handleExportReport and handleExportRevised: the name of the downloaded  *)
(* file.  The report and the revised contract themselves are built by the  *)
(* export service.                                                         *)
(***************************************************************************)
\* Longest uploaded file name of the export check.
MaxNameLen == 3

\* [a-zA-Z0-9]
Alphanumeric ==
  {"a", "b", "c", "d", "e", "f", "g", "h", "i", "j", "k", "l", "m",
   "n", "o", "p", "q", "r", "s", "t", "u", "v", "w", "x", "y", "z",
   "A", "B", "C", "D", "E", "F", "G", "H", "I", "J", "K", "L", "M",
   "N", "O", "P", "Q", "R", "S", "T", "U", "V", "W", "X", "Y", "Z"} \cup DigitChars

\* Only the first match is replaced: the regular expression without its g flag.
SafeFileNameFirstOnly(name) ==
  LET hits == {i \in 1..Len(name) : name[i] \notin Alphanumeric}
  IN [i \in 1..Len(name) |->
        IF hits # {} /\ i = (CHOOSE x \in hits : \A y \in hits : x <= y) THEN "_" ELSE name[i]]

\* uploadedFileName.replace(/[^a-zA-Z0-9]/g, '_')
SafeFileName(name) ==
  [i \in 1..Len(name) |-> IF name[i] \in Alphanumeric THEN name[i] ELSE "_"]

\* The decimal digits of n, padded with zeros to width characters.
RECURSIVE Pad(_, _)
Pad(n, width) ==
  IF Len(ToText(n)) >= width THEN ToText(n) ELSE <<"0">> \o Pad(n, width - 1)

\* Date.prototype.toISOString: YYYY-MM-DDTHH:mm:ss.sssZ
toISOString(date) ==
  Pad(date.year, 4) \o <<"-">> \o Pad(date.month, 2) \o <<"-">> \o Pad(date.day, 2)
    \o <<"T">> \o Pad(date.hour, 2) \o <<":", "0", "0", ":", "0", "0", ".", "0", "0", "0", "Z">>

\* s.split(sep)[0]: the text before the first sep, all of s without one.
SplitFirst(s, sep) ==
  LET hits == {i \in 1..Len(s) : s[i] = sep}
  IN IF hits = {} THEN s
     ELSE SubSeq(s, 1, (CHOOSE x \in hits : \A y \in hits : x <= y) - 1)

\* new Date().toISOString().split('T')[0]
Timestamp(date) == SplitFirst(toISOString(date), "T")

ReportPrefix == <<"C", "o", "n", "t", "r", "a", "c", "t", "G", "u", "a", "r", "d", "_", "A", "n", "a", "l", "y", "s", "i", "s", "_">>

RevisedPrefix == <<"C", "o", "n", "t", "r", "a", "c", "t", "G", "u", "a", "r", "d", "_", "R", "e", "v", "i", "s", "e", "d", "_">>

\* The template literal of lines 74 and 87.
ExportFileName(prefix, name, date) ==
  prefix \o SafeFileName(name) \o <<"_">> \o Timestamp(date) \o <<".", "t", "x", "t">>

\* An export handler returned without a download, or downloaded a file.
Skipped(handler) == [handler |-> handler, downloaded |-> FALSE, fileName |-> <<>>]

Downloaded(handler, fileName) == [handler |-> handler, downloaded |-> TRUE, fileName |-> fileName]

\* File names of letters, digits and other characters.
RECURSIVE Names(_)
Names(n) ==
  IF n = 0 THEN {<<>>}
  ELSE Names(n - 1) \cup
       {Append(name, c) : name \in Names(n - 1), c \in {"a", "Z", "7", ".", " ", "-", "_"}}

Dates ==
  {[year |-> 2024, month |-> 1, day |-> 5, hour |-> 0],
   [year |-> 2025, month |-> 12, day |-> 31, hour |-> 23]}

\* The result of an analysis of text.
ResultOf(text) == Normalize(JsonParse(PayloadText(<<MediumRisk>>)).val, text).val

InitExport ==
  /\ currentView = "analysis"
  /\ uploadedFile = Null
  /\ uploadedFileName \in Names(MaxNameLen)
  /\ originalContractText \in {<<>>, SampleText}
  /\ analysisResult \in {Null, ResultOf(SampleText)}
  /\ isAnalyzing = FALSE
  /\ analysisError = Null
  /\ user = AuthUser
  /\ authLoading = FALSE
  /\ currentUserPending = FALSE
  /\ signOutPending = FALSE
  /\ runs = <<>>
  /\ requests = <<>>
  /\ apiKeySet = TRUE
  /\ InitNoParse
  /\ now \in Dates
  /\ exported = NotRun
  /\ InitNoSub

\* Lines 59-75.
handleExportReport ==
  /\ exported = NotRun
  /\ exported' = IF analysisResult = Null THEN Skipped("report")
                 ELSE Downloaded("report", ExportFileName(ReportPrefix, uploadedFileName, now))
  /\ UNCHANGED <<appVars, authVars, apiKeySet, runVars, parseVars, now, subVars>>

\* Lines 77-88.
handleExportRevised ==
  /\ exported = NotRun
  /\ exported' = IF analysisResult = Null \/ originalContractText = <<>>
                 THEN Skipped("revised")
                 ELSE Downloaded("revised", ExportFileName(RevisedPrefix, uploadedFileName, now))
  /\ UNCHANGED <<appVars, authVars, apiKeySet, runVars, parseVars, now, subVars>>

NextExport == handleExportReport \/ handleExportRevised

SpecExport == InitExport /\ [][NextExport]_vars

(***************************************************************************)
(* useSubscription (hooks/useSubscription.ts).  The hook calls useAuth()   *)
(* itself, so user, authLoading and currentUserPending are here the state  *)
(* of the hook's own useAuth instance.                                     *)
(***************************************************************************)
MaxFetches == 2

\* A second account the authentication provider may report.
OtherUser == [id |-> "u2", email |-> "u2@example.com"]

AuthUsers == {AuthUser, OtherUser}

\* What getUserSubscription() and getUserOrders() find for an account.
UserSubscription(u) == [owner |-> u.id]

UserOrder(u) == [owner |-> u.id]

FetchIds == 1..Len(fetches)

InitSubscription ==
  /\ InitApp
  /\ currentView = "landing"
  /\ apiKeySet = TRUE
  /\ InitNoParse
  /\ InitNoExport
  /\ InitNoSub

\* The effect, run after a render in which user differs from the user of
\* its last run (the dependency list [user]).
SubscriptionEffect ==
  /\ effectUser # user
  /\ effectUser' = user
  /\ IF user = Null
       THEN /\ subscription' = Null
            /\ orders' = <<>>
            /\ UNCHANGED <<loading, fetches>>
       ELSE /\ Len(fetches) < MaxFetches
            /\ loading' = TRUE
            /\ fetches' = Append(fetches, [forUser |-> user, settled |-> FALSE])
            /\ UNCHANGED <<subscription, orders>>
  /\ UNCHANGED <<appVars, authVars, apiKeySet, runVars, parseVars, exportVars>>

\* Promise.all settles: both requests resolved (then), or one rejected
\* (catch); finally runs in either case.
FetchSettled(f) ==
  /\ ~fetches[f].settled
  /\ fetches' = [fetches EXCEPT ![f].settled = TRUE]
  /\ \/ \E subscriptionData \in {Null, UserSubscription(fetches[f].forUser)},
           ordersData \in {<<>>, <<UserOrder(fetches[f].forUser)>>} :
           /\ subscription' = subscriptionData
           /\ orders' = ordersData
     \/ UNCHANGED <<subscription, orders>>
  /\ loading' = FALSE
  /\ UNCHANGED <<appVars, authVars, apiKeySet, runVars, parseVars, exportVars, effectUser>>

NextSubscription ==
  \/ GetCurrentUserSettled
  \/ \E u \in AuthUsers \cup {Null} : AuthStateChange(u)
  \/ SubscriptionEffect
  \/ \E f \in FetchIds : FetchSettled(f)

SpecSubscription == InitSubscription /\ [][NextSubscription]_vars

Next ==
  \/ GetCurrentUserSettled
  \/ \E u \in {AuthUser, Null} : AuthStateChange(u)
  \/ handleSignOut
  \/ SignOutSettled
  \/ ShowLanding
  \/ ShowPricing
  \/ AnalyzeContractButton
  \/ handleFreeAccess
  \/ SuccessContinue
  \/ SideBySide
  \/ TryAnotherFile
  \/ BackToAnalysis
  \/ \E file \in Files : handleFileUpload(file)
  \/ \E r \in RunIds : ExtractSettled(r)
  \/ \E r \in RunIds : CompletionSettled(r)

Spec == Init /\ [][Next]_vars

(***************************************************************************)
(* Properties.                                                             *)
(***************************************************************************)
\* The stages of one upload, in the order of the code.
StageOrder ==
  <<"extract", "length", "credential", "request", "response", "parse", "normalize", "publish">>

IsPrefix(s, t) == Len(s) <= Len(t) /\ \A n \in 1..Len(s) : s[n] = t[n]

Ran(r, stage) == \E n \in 1..Len(runs[r].stages) : runs[r].stages[n] = stage

RequestsOf(r) == {n \in 1..Len(requests) : requests[n].run = r}

Failed(r) == runs[r].pc = "done" /\ ~runs[r].outcome.ok

\* Run r ends in this step.
Finishes(r) == r \in RunIds /\ InFlight(r) /\ runs'[r].pc = "done"

\* C1: a run whose extracted text is shorter than 100 characters (the empty
\* text included) ends with the insufficient-text error without entering
\* analyzeContract, and no completion request is sent for it.
ShortTextNeverAnalyzed ==
  \A r \in RunIds :
    (runs[r].pc # "extracting" /\ runs[r].failedAt # "extract"
       /\ Len(runs[r].contractText) < MinTextLength)
    => /\ runs[r].pc = "done"
       /\ runs[r].failedAt = "length"
       /\ runs[r].outcome = Thrown(TRUE, InsufficientMessage)
       /\ ~Ran(r, "credential")
       /\ RequestsOf(r) = {}

ShortTextAborted ==
  \E r \in RunIds :
    /\ runs[r].failedAt = "length"
    /\ Len(runs[r].contractText) = MinTextLength - 1
    /\ analysisError = Msg(InsufficientMessage)

\* C2: at most one run of handleFileUpload is in flight at any time.
SingleUploadInFlight == Cardinality({r \in RunIds : InFlight(r)}) <= 1

\* C3: when a stage of a run fails, the run ends at that stage (no later
\* stage runs, then or afterwards), and the step that ends it leaves
\* analysisError holding the message of the error that stage raised and
\* analysisResult null.
FailFast ==
  [][\A r \in RunIds :
       /\ (Finishes(r) /\ ~runs'[r].outcome.ok)
          => /\ analysisError' = Msg(runs'[r].outcome.message)
             /\ runs'[r].failedAt = "request" /\ runs'[r].settled.isError
                => runs'[r].outcome.message = runs'[r].settled.message
             /\ analysisResult' = Null
             /\ runs'[r].stages[Len(runs'[r].stages)] = runs'[r].failedAt
             /\ IsPrefix(runs'[r].stages, StageOrder)
       /\ runs[r].pc = "done" => runs'[r] = runs[r]]_vars

ResultClearedByFailure ==
  \E r1, r2 \in RunIds :
    /\ runs[r1].pc = "done" /\ runs[r1].outcome.ok
    /\ Failed(r2) /\ runs[r2].failedAt = "length"
    /\ analysisResult = Null
    /\ analysisError = Msg(InsufficientMessage)

\* C4: the step in which the awaited extraction or request of a failing run
\* settles leaves isAnalyzing false, every start of handleFileUpload resets
\* analysisError to null whatever an earlier failure left there, and a run
\* that overlaps no other run and succeeds publishes its own result with no
\* error left.
RecoversAfterFailure ==
  [][/\ \A r \in RunIds : (Finishes(r) /\ ~runs'[r].outcome.ok) => ~isAnalyzing'
     /\ Len(runs') > Len(runs) => analysisError' = Null
     /\ \A r \in RunIds :
          (Finishes(r) /\ runs'[r].outcome.ok /\ ~runs'[r].concurrent)
          => /\ analysisResult' = runs'[r].outcome.val
             /\ analysisResult'.originalText = runs'[r].file.content
             /\ analysisError' = Null
             /\ ~isAnalyzing']_vars

SucceededAfterFailure ==
  \E r1, r2 \in RunIds :
    /\ r1 < r2
    /\ Failed(r1)
    /\ runs[r2].pc = "done" /\ runs[r2].outcome.ok /\ ~runs[r2].concurrent
    /\ analysisResult = runs[r2].outcome.val
    /\ analysisError = Null
    /\ ~isAnalyzing

\* C5: the credential check comes before the request; without an API key a
\* run that reaches analyzeContract ends there with the configuration error
\* and no completion request is ever sent.
CredentialBeforeRequest ==
  /\ \A r \in RunIds :
       Ran(r, "request") =>
         \E m, n \in 1..Len(runs[r].stages) :
           m < n /\ runs[r].stages[m] = "credential" /\ runs[r].stages[n] = "request"
  /\ ~apiKeySet =>
       /\ requests = <<>>
       /\ \A r \in RunIds :
            Ran(r, "credential") =>
              /\ runs[r].pc = "done"
              /\ runs[r].failedAt = "credential"
              /\ runs[r].outcome = Thrown(TRUE, KeyMissingMessage)

KeyMissingReported ==
  /\ ~apiKeySet
  /\ \E r \in RunIds : Failed(r) /\ runs[r].failedAt = "credential"
  /\ requests = <<>>

\* C6: the stages of a run are an initial part of extract, length check,
\* credential check, request, (response check,) parse, (normalize,) publish,
\* each run at most once, and a run sends at most one completion request:
\* exactly one if it reached the request stage, whatever happened after.
LinearSingleShot ==
  \A r \in RunIds :
    /\ IsPrefix(runs[r].stages, StageOrder)
    /\ Cardinality(RequestsOf(r)) = IF Ran(r, "request") THEN 1 ELSE 0

NoRetryAfterFailedParse ==
  \E r \in RunIds :
    /\ Failed(r) /\ runs[r].failedAt \in {"request", "parse"}
    /\ Cardinality(RequestsOf(r)) = 1
    /\ \E r2 \in RunIds : r2 # r /\ Failed(r2) /\ runs[r2].failedAt = "request"

\* The response of a run that got one is a text that is no JSON once cleaned.
Malformed(run) ==
  /\ run.settled.ok /\ run.settled.val # Null
  /\ CompletionContent(run.settled.val).ok
  /\ CompletionContent(run.settled.val).val.k = "str"
  /\ CompletionContent(run.settled.val).val.v # <<>>
  /\ ~JsonParse(CleanResponse(CompletionContent(run.settled.val).val.v)).ok

\* C8: when the cleaned response is not valid JSON, analyzeContract throws at
\* the parse and returns nothing, and the step that ends the run sets
\* analysisError to the message, analysisResult to null and isAnalyzing to
\* false; the error does not escape handleFileUpload.
MalformedResponseCaught ==
  [][\A r \in RunIds :
       (Finishes(r) /\ Malformed(runs'[r]))
       => /\ runs'[r].failedAt = "parse"
          /\ runs'[r].outcome = Thrown(TRUE, SyntaxErrorMessage)
          /\ ~runs'[r].escaped
          /\ analysisError' = Msg(SyntaxErrorMessage)
          /\ analysisResult' = Null
          /\ ~isAnalyzing']_vars

MalformedResponseReported ==
  \E r \in RunIds :
    /\ runs[r].pc = "done"
    /\ Malformed(runs[r])
    /\ analysisError = Msg(SyntaxErrorMessage)
    /\ analysisResult = Null
    /\ ~isAnalyzing

\* The payload is a JSON text.
ValidPayload == JsonParse(payload).ok

\* C7: for a JSON text, clean-and-parse of the fenced text yields what
\* clean-and-parse of the bare text yields.
FenceRoundTrip ==
  (ValidPayload /\ parsedPlain # NotRun /\ parsedFenced # NotRun)
  => parsedFenced = parsedPlain

FencedPayloadParsed ==
  /\ ValidPayload
  /\ fence.open = FenceJson \o <<"\n">>
  /\ StripFences(payload) # payload
  /\ parsedFenced # NotRun
  /\ parsedFenced.ok
  /\ parsedFenced = parsedPlain

\* The risks array of the parsed (cleaned) response.
ParsedRisks == GetProp(parsedFenced.val, KeyRisks)

\* C9: when the parsed payload's risks is an array of N entries, the result
\* has N risks in the same order, the n-th with id risk-n, whatever the
\* entry holds, an id of its own included.
RisksNumbered ==
  (normalized # NotRun /\ normalized.failedAt \notin {"response", "parse"}
     /\ ParsedRisks.k = "arr")
  => /\ normalized.outcome.ok
     /\ Len(normalized.outcome.val.risks) = Len(ParsedRisks.v)
     /\ \A n \in 1..Len(ParsedRisks.v) :
          /\ GetProp(normalized.outcome.val.risks[n], KeyId)
               = Str(<<"r", "i", "s", "k", "-">> \o ToText(n))
          /\ \A key \in (DOMAIN Spread(ParsedRisks.v[n])) \ {KeyId} :
               GetProp(normalized.outcome.val.risks[n], key) = Spread(ParsedRisks.v[n])[key]

OwnIdReplaced ==
  /\ normalized # NotRun
  /\ normalized.outcome.ok
  /\ Len(normalized.outcome.val.risks) = 2
  /\ GetProp(ParsedRisks.v[2], KeyId) = Str(<<"x">>)
  /\ GetProp(normalized.outcome.val.risks[2], KeyId) = Str(<<"r", "i", "s", "k", "-", "2">>)

\* The risks array of the payload as emitted.
EmittedRisks == GetProp(JsonParse(payload).val, KeyRisks)

\* C10: apart from the id, every field of every risk entry of the result
\* equals the value in the payload as the model emitted it.
RiskFieldsAsEmitted ==
  (normalized # NotRun /\ normalized.outcome.ok /\ ValidPayload /\ EmittedRisks.k = "arr")
  => /\ Len(normalized.outcome.val.risks) = Len(EmittedRisks.v)
     /\ \A n \in 1..Len(EmittedRisks.v) :
          \A key \in (DOMAIN Spread(EmittedRisks.v[n])) \ {KeyId} :
            GetProp(normalized.outcome.val.risks[n], key) = Spread(EmittedRisks.v[n])[key]

\* C11: for a parsed payload whose risks is an array, analyzeContract
\* succeeds; without a revisedSections field the result's revisedSections is
\* the empty sequence, and a revisedSections that is a sequence is returned
\* as it is, in order.
RevisedSectionsDefault ==
  (normalized # NotRun /\ parsedFenced.ok /\ ParsedRisks.k = "arr")
  => /\ normalized.outcome.ok
     /\ LET revised == GetProp(parsedFenced.val, KeyRevisedSections)
        IN /\ revised = Undefined => normalized.outcome.val.revisedSections = Arr(<<>>)
           /\ revised.k = "arr" => normalized.outcome.val.revisedSections = revised

RevisedSectionsDefaulted ==
  /\ normalized # NotRun
  /\ parsedFenced.ok
  /\ ParsedRisks.k = "arr"
  /\ GetProp(parsedFenced.val, KeyRevisedSections) = Undefined
  /\ normalized.outcome.ok
  /\ normalized.outcome.val.revisedSections = Arr(<<>>)

\* C12: for a response text that parses as JSON, analyzeContract returns a
\* result whatever expected field is missing, the missing field undefined in
\* the result.
MissingFieldsTolerated ==
  (normalized # NotRun /\ parsedFenced.ok)
  => /\ normalized.outcome.ok
     /\ normalized.outcome.val.overallScore = GetProp(parsedFenced.val, KeyOverallScore)
     /\ normalized.outcome.val.totalClauses = GetProp(parsedFenced.val, KeyTotalClauses)

\* The completion carries no message content: no choices, a first choice
\* without message, or a message whose content is absent, null or empty.
NoContent(completion) ==
  LET choices == GetProp(completion, KeyChoices)
  IN /\ choices.k = "arr"
     /\ \/ Len(choices.v) = 0
        \/ GetProp(choices.v[1], KeyMessage) = Undefined
        \/ GetProp(GetProp(choices.v[1], KeyMessage), KeyContent)
             \in {Undefined, Null, Str(<<>>)}

\* C13: a run whose completion carries no message content ends with the
\* empty-response error, and never reaches JSON parsing.
EmptyResponseRejected ==
  \A r \in RunIds :
    (runs[r].pc = "done" /\ Ran(r, "request") /\ runs[r].settled.ok
       /\ NoContent(runs[r].settled.val))
    => /\ runs[r].outcome = Thrown(TRUE, NoResponseMessage)
       /\ runs[r].failedAt = "response"
       /\ ~Ran(r, "parse")
       /\ ~Ran(r, "normalize")

ChoiceWithoutMessageRejected ==
  \E r \in RunIds :
    /\ runs[r].pc = "done"
    /\ runs[r].settled = Returned(Obj(KeyChoices :> Arr(<<EmptyObj>>)))
    /\ runs[r].outcome = Thrown(TRUE, NoResponseMessage)
    /\ ~Ran(r, "parse")
    /\ analysisError = Msg(NoResponseMessage)

\* The completion request of run r is rejected in this step.
RequestRejected(r) == Finishes(r) /\ ~runs'[r].settled.ok

\* C14 as stated: whatever the completion request is rejected with, an Error
\* or not, its message is the message analyzeContract fails with and
\* handleFileUpload stores in analysisError.
UpstreamMessageStored ==
  [][\A r \in RunIds :
       RequestRejected(r)
       => /\ runs'[r].outcome = Thrown(TRUE, runs'[r].settled.message)
          /\ analysisError' = Msg(runs'[r].settled.message)
          /\ analysisResult' = Null]_vars

\* C14: when the completion request is rejected, analyzeContract fails with
\* no result and analysisError holds the message it fails with: the message
\* of the rejection when that is an Error, the fixed unexpected-error message
\* when it is any other value.
UpstreamErrorStored ==
  [][\A r \in RunIds :
       RequestRejected(r)
       => LET message == IF runs'[r].settled.isError THEN runs'[r].settled.message
                         ELSE UnexpectedMessage
          IN /\ runs'[r].outcome = Thrown(TRUE, message)
             /\ runs'[r].failedAt = "request"
             /\ analysisError' = Msg(message)
             /\ analysisResult' = Null]_vars

NonErrorRejectionReplaced ==
  \E r \in RunIds :
    /\ runs[r].pc = "done"
    /\ runs[r].settled = Thrown(FALSE, "Failed to fetch")
    /\ runs[r].outcome = Thrown(TRUE, UnexpectedMessage)
    /\ analysisError = Msg(UnexpectedMessage)
    /\ analysisResult = Null

\* The awaited extractTextFromFile of run r has settled.
Extracted(r) == runs[r].pc # "extracting"

OtherTypesUnsupported ==
  \A r \in RunIds :
    (Extracted(r) /\ runs[r].file.type \notin {PlainType, DocxType, PdfType})
    => /\ runs[r].pc = "done"
       /\ runs[r].outcome = Thrown(TRUE, UnsupportedMessage)
       /\ runs[r].failedAt = "extract"
       /\ runs[r].calls = <<>>
       /\ RequestsOf(r) = {}

UntypedTextFileUnsupported ==
  \E r \in RunIds :
    /\ runs[r].pc = "done"
    /\ runs[r].file.type = ""
    /\ EndsWith(runs[r].file.name, <<".", "t", "x", "t">>)
    /\ Len(runs[r].file.content) > MinTextLength
    /\ runs[r].outcome = Thrown(TRUE, UnsupportedMessage)
    /\ analysisError = Msg(UnsupportedMessage)

\* C17: for a file of the DOCX type, whatever the import, the read of the
\* bytes or the extraction throws, the extractor fails with the one DOCX-read
\* error; when they succeed, the text the library returned is the extracted
\* text.
DocxErrorsReplaced ==
  \A r \in RunIds :
    (Extracted(r) /\ runs[r].file.type = DocxType)
    => /\ runs[r].inner # NoCall
       /\ runs[r].inner.ok
            => /\ runs[r].calls = <<"import", "arrayBuffer", "extractRawText">>
               /\ runs[r].contractText = runs[r].inner.val
               /\ runs[r].failedAt # "extract"
       /\ ~runs[r].inner.ok
            => /\ runs[r].pc = "done"
               /\ runs[r].failedAt = "extract"
               /\ runs[r].outcome = Thrown(TRUE, DocxMessage)

CorruptDocxReported ==
  \E r \in RunIds :
    /\ runs[r].pc = "done"
    /\ runs[r].file.type = DocxType
    /\ runs[r].inner = Thrown(TRUE, ArchiveFailure)
    /\ runs[r].outcome = Thrown(TRUE, DocxMessage)
    /\ analysisError = Msg(DocxMessage)

\* The run of the file chosen last.
LastRun == Len(runs)

\* The non-empty texts of the files chosen before another file was chosen
\* last.
PreviousTexts ==
  {runs[r].file.content : r \in {x \in 1..(LastRun - 1) : runs[x].file # runs[LastRun].file}}
    \ {<<>>, runs[LastRun].file.content}

\* C18: from the start of handleFileUpload for a new file, uploadedFile and
\* uploadedFileName are those of the new file, and neither
\* originalContractText nor analysisResult holds the text of a file chosen
\* before.
PreviousFileDiscarded ==
  LastRun >= 1
  => /\ uploadedFile = runs[LastRun].file
     /\ uploadedFileName = runs[LastRun].file.name
     /\ originalContractText \notin PreviousTexts
     /\ analysisResult # Null => analysisResult.originalText \notin PreviousTexts

\* C19: every completion request is for an extracted text that is longer
\* than 100 characters.
RequestsOnlyAboveThreshold ==
  \A n \in 1..Len(requests) :
    Len(runs[requests[n].run].contractText) > MinTextLength

\* The date part of now: four digits of the year, two of the month and two
\* of the day.
IsoDate ==
  Pad(now.year, 4) \o <<"-">> \o Pad(now.month, 2) \o <<"-">> \o Pad(now.day, 2)

\* C20: handleExportReport downloads unless analysisResult is null, and
\* handleExportRevised unless analysisResult is null or the original text is
\* empty; the file is named by the handler's prefix, the uploaded file name
\* with every character that is no letter or digit replaced by an underscore
\* and every other character kept, an underscore, the date as YYYY-MM-DD,
\* and .txt.
ExportNamed ==
  exported # NotRun
  => /\ exported.downloaded
          = (/\ analysisResult # Null
             /\ exported.handler = "revised" => originalContractText # <<>>)
     /\ exported.downloaded
          => LET prefix == IF exported.handler = "report" THEN ReportPrefix ELSE RevisedPrefix
                 from == Len(prefix)
                 size == Len(uploadedFileName)
                 name == exported.fileName
             IN /\ Len(IsoDate) = 10
                /\ Len(name) = from + size + 1 + 10 + 4
                /\ SubSeq(name, 1, from) = prefix
                /\ \A i \in 1..size :
                     name[from + i] = IF uploadedFileName[i] \in Alphanumeric
                                      THEN uploadedFileName[i] ELSE "_"
                /\ name[from + size + 1] = "_"
                /\ SubSeq(name, from + size + 2, from + size + 11) = IsoDate
                /\ SubSeq(name, from + size + 12, Len(name)) = <<".", "t", "x", "t">>

RevisedExportNamed ==
  /\ exported # NotRun
  /\ exported.handler = "revised"
  /\ exported.downloaded
  /\ uploadedFileName = <<"a", ".", " ">>
  /\ now.month = 1
  /\ exported.fileName = RevisedPrefix
       \o <<"a", "_", "_", "_", "2", "0", "2", "4", "-", "0", "1", "-", "0", "5", ".", "t", "x", "t">>

ResultOfLatestFile ==
  analysisResult # Null
  => /\ analysisResult.originalText = originalContractText
     /\ LastRun >= 1
     /\ uploadedFileName = runs[LastRun].file.name
     /\ originalContractText = runs[LastRun].file.content

\* C23: isAnalyzing is true in every state in which a run of
\* handleFileUpload has started and not finished.
AnalyzingWhileInFlight == (\E r \in RunIds : InFlight(r)) => isAnalyzing

\* C24: when no run is in flight and one has finished, either analysisResult
\* is not null or analysisError is a non-empty message, and not both.
ResultXorError ==
  (LastRun >= 1 /\ \A r \in RunIds : ~InFlight(r))
  => (analysisResult # Null) # (analysisError # Null /\ analysisError.v # "")

\* C26: once the auth-state-change callback has delivered a value (loading
\* is false while getCurrentUser is still pending), the settling of
\* getCurrentUser leaves the hook's user as delivered; and loading, once
\* false, stays false.
DeliveredUserKept ==
  [][/\ (currentUserPending /\ ~currentUserPending' /\ ~authLoading) => user' = user
     /\ ~authLoading => ~authLoading']_vars

\* C27: a step that enters the upload view is taken with a user signed in.
UploadOnlySignedIn ==
  [][(currentView # "upload" /\ currentView' = "upload") => user # Null]_vars

\* C25: while the hook's user is null and its effect has run for null, the
\* subscription is null and the orders are empty; and once the effect has
\* run for the current user, the data shown is that user's.
SubscriptionOfCurrentUser ==
  /\ (user = Null /\ effectUser = Null) => (subscription = Null /\ orders = <<>>)
  /\ (user # Null /\ effectUser = user)
       => /\ subscription # Null => subscription.owner = user.id
          /\ \A i \in 1..Len(orders) : orders[i].owner = user.id
====
